---- MODULE Spec2Model ----
(***************************************************************************)
(* A model of src/main.py: the image aggregator search_commons_images and  *)
(* the diagnostic endpoint test_database.                                  *)
(*                                                                         *)
(* Spec   : one invocation of search_commons_images against an arbitrary   *)
(*          external service.                                              *)
(* SpecDb : one invocation of test_database against an arbitrary database  *)
(*          module and environment.                                        *)
(***************************************************************************)
EXTENDS Integers, Sequences, FiniteSets, TLC

VARIABLES
    queries,    \* argument `queries`: the search terms, in input order
    limit,      \* argument `limit`
    qi,         \* position of the `for q in queries` loop (1-based)
    pc,         \* "for" | "pages" | "done" | "raised"
    left,       \* items of pages.items() not yet iterated
    keys,       \* keys of `pages` already iterated (dict keys are distinct)
    pid,        \* loop variable `pid` (cleared when the loop is left)
    page,       \* loop variable `page` (cleared when the loop is left)
    results,    \* the dict `results`, in insertion order
    ret,        \* the returned list
    calls,      \* search terms of the requests issued so far, in order
    fetched,    \* number of _fetch_json calls that returned a document
    exc,        \* exception raised inside the current try block, if any
    mark,       \* `results` as it stood when the current try block was entered
    origin,     \* for each int(pid): the last item with a "thumbnail" key that
                \* the loop body processed without raising
    disc,       \* keys in the order in which they were first assigned
    dpc,        \* test_database: "import" | "list" | "env" | "returned"
    db,         \* what `from database import db` yielded
    environ,    \* the environment variables that are set (non-empty)
    response    \* the dict `response`

aggVars == <<queries, limit, qi, pc, left, keys, pid, page, results, ret,
             calls, fetched, exc, mark, origin, disc>>
dbVars == <<dpc, db, environ, response>>
vars == <<aggVars, dbVars>>

-----------------------------------------------------------------------------
(* Bounds of the model.                                                    *)

MaxQueries == 2
MaxLimit == 2
MaxPages == 2
MaxCollections == 11

-----------------------------------------------------------------------------
(* JSON documents as json.loads returns them: None, str, int and dict.     *)

JNull == [type |-> "null"]
JStr(s) == [type |-> "string", val |-> s]
JNum(n) == [type |-> "number", val |-> n]
JObj(f) == [type |-> "object", val |-> f]
EmptyObj == JObj(<<>>)

IsObj(v) == v.type = "object"

\* `k in d`
Has(d, k) == k \in DOMAIN d.val

\* d.get(k, default)
Get(d, k, default) == IF Has(d, k) THEN d.val[k] ELSE default

\* The "pages" mapping of a response. Its items are read one at a time by the
\* for loop, so the mapping is represented by the number of its items; each
\* (pid, page) item is drawn when the loop reaches it.
PagesObj(n) == [type |-> "object", size |-> n]

\* len(d) of a "pages" mapping
Size(d) == IF "size" \in DOMAIN d THEN d.size ELSE 0

-----------------------------------------------------------------------------
(* int(pid): page identifiers arrive as JSON object keys, i.e. as strings. *)
(* A string is a sequence of characters here.                              *)

DigitVal == [c \in {"0", "1", "2", "3", "4", "5", "6", "7", "8", "9"} |->
               CASE c = "0" -> 0 [] c = "1" -> 1 [] c = "2" -> 2 [] c = "3" -> 3
                 [] c = "4" -> 4 [] c = "5" -> 5 [] c = "6" -> 6 [] c = "7" -> 7
                 [] c = "8" -> 8 [] c = "9" -> 9]

\* int(s) raises ValueError unless s is a decimal literal
IsIntLiteral(s) == Len(s) > 0 /\ \A i \in DOMAIN s : s[i] \in DOMAIN DigitVal

RECURSIVE PyInt(_)
PyInt(s) == IF Len(s) = 0 THEN 0
            ELSE 10 * PyInt(SubSeq(s, 1, Len(s) - 1)) + DigitVal[s[Len(s)]]

-----------------------------------------------------------------------------
(* What the external service may answer.                                   *)

\* The search terms a caller passes: distinct terms, as omsk_photos passes.
Terms == <<"A", "B", "C", "D">>
QueryLists == {SubSeq(Terms, 1, n) : n \in 1..MaxQueries}

Pids == {<<"1">>, <<"0", "1">>, <<"2">>, <<"x">>}

Thumb(v) == IF v = "a"
            THEN JObj([source |-> JStr("a.jpg"), width |-> JNum(800), height |-> JNum(600)])
            ELSE JObj([source |-> JStr("b.jpg"), width |-> JNum(640), height |-> JNum(480)])

PageFull(v) == JObj([title |-> JStr(v), fullurl |-> JStr(v), thumbnail |-> Thumb(v)])
PageNoThumb == JObj([title |-> JStr("a"), fullurl |-> JStr("a")])
PageBare == JObj([thumbnail |-> EmptyObj])
PageThumbNull == JObj([title |-> JStr("a"), thumbnail |-> JNull])

Pages == {PageFull("a"), PageFull("b"), PageNoThumb, PageBare, PageThumbNull, JNull}

\* The documents _fetch_json may return.
Documents ==
    {JNull, EmptyObj, JObj([query |-> JNull]), JObj([query |-> EmptyObj]),
     JObj([query |-> JObj([pages |-> JNull])])}
    \cup {JObj([query |-> JObj([pages |-> PagesObj(n)])]) : n \in 1..MaxPages}

\* The exceptions _fetch_json may raise: urlopen fails or times out (URLError),
\* or the body is not JSON (JSONDecodeError).
FetchErrors == {"URLError", "JSONDecodeError"}

-----------------------------------------------------------------------------
(* Exceptions.                                                             *)

NoExc == [type |-> "none", line |-> 0]
Raised(t, l) == [type |-> t, line |-> l]

\* `except Exception` catches every exception the try block can raise.
CaughtOnlyUrlError(t) == t = "URLError"
Caught(t) ==
    t \in FetchErrors \cup {"AttributeError", "TypeError", "ValueError"}

-----------------------------------------------------------------------------
(* The dict `results`: a sequence of (key, value) items in insertion order. *)

HasKey(d, k) == \E i \in DOMAIN d : d[i].key = k
IndexOf(d, k) == CHOOSE i \in DOMAIN d : d[i].key = k
Lookup(d, k) == d[IndexOf(d, k)].value

\* variants of d[k] = v a slip could produce
DictSetDefault(d, k, v) ==
    IF HasKey(d, k) THEN d ELSE Append(d, [key |-> k, value |-> v])
DictSetAppend(d, k, v) == Append(d, [key |-> k, value |-> v])
DictSetMoveToEnd(d, k, v) ==
    Append(SelectSeq(d, LAMBDA it : it.key # k), [key |-> k, value |-> v])

\* d[k] = v: a new key goes last, an existing key keeps its position and
\* gets the new value.
DictSet(d, k, v) ==
    IF HasKey(d, k)
    THEN [d EXCEPT ![IndexOf(d, k)] = [key |-> k, value |-> v]]
    ELSE Append(d, [key |-> k, value |-> v])

\* list(d.values())
DictValues(d) == [i \in DOMAIN d |-> d[i].value]

\* s[:n] for n >= 0
PySliceAll(s, n) == s
PySlice(s, n) == SubSeq(s, 1, IF n < Len(s) THEN n ELSE Len(s))

-----------------------------------------------------------------------------
(* search_commons_images                                                   *)

\* `"thumbnail" in page`
AnyPage(p) == TRUE
HasAllFields(p) ==
    /\ Has(p, "thumbnail") /\ Has(p, "title") /\ Has(p, "fullurl")
    /\ IsObj(p.val.thumbnail)
    /\ \A k \in {"source", "width", "height"} : Has(p.val.thumbnail, k)
HasThumbnail(p) == Has(p, "thumbnail")

\* The dict literal of lines 57-66.
MkEntry(i, p) ==
    [id |-> PyInt(i),
     title |-> Get(p, "title", JNull),
     page_url |-> Get(p, "fullurl", JNull),
     thumbnail |-> Get(Get(p, "thumbnail", EmptyObj), "source", JNull),
     width |-> Get(Get(p, "thumbnail", EmptyObj), "width", JNull),
     height |-> Get(Get(p, "thumbnail", EmptyObj), "height", JNull),
     source |-> "Wikimedia Commons",
     license |-> "See source page"]

\* The exception line 54 raises on a document, if any: .get on a value that
\* is no dict, or .items() on a "pages" value that is no dict.
PagesOf(data) == Get(Get(data, "query", EmptyObj), "pages", EmptyObj)
DocRaises(data) ==
    IF ~IsObj(data) \/ ~IsObj(Get(data, "query", EmptyObj))
    THEN Raised("AttributeError", 54)
    ELSE IF ~IsObj(PagesOf(data)) THEN Raised("AttributeError", 55)
    ELSE NoExc

\* The exception the loop body raises on an item, if any. The right-hand side
\* of the assignment is evaluated first, top to bottom.
ItemRaises(i, p) ==
    IF ~IsObj(p) THEN Raised("TypeError", 56)
    ELSE IF ~HasThumbnail(p) THEN NoExc
    ELSE IF ~IsIntLiteral(i) THEN Raised("ValueError", 58)
    ELSE IF ~IsObj(Get(p, "thumbnail", EmptyObj)) THEN Raised("AttributeError", 61)
    ELSE NoExc

\* `for q in queries` has a next element
HasNextUntilFull == qi <= Len(queries) /\ Len(results) < limit
HasNext == qi <= Len(queries)

\* `except Exception: continue`
ExceptRollback == results' = mark /\ qi' = qi + 1 /\ pc' = "for"
ExceptContinue == results' = results /\ qi' = qi + 1 /\ pc' = "for"

\* An exception e leaves the try block.
Handle(e) ==
    /\ exc' = e
    /\ left' = 0
    /\ keys' = {}
    /\ pid' = <<>>
    /\ page' = JNull
    /\ IF Caught(e.type)
       THEN ExceptContinue
       ELSE results' = results /\ qi' = qi /\ pc' = "raised"

\* test_database is not running.
dbIdle ==
    /\ dpc = "idle" /\ db = [kind |-> "unbound"] /\ environ = {} /\ response = <<>>

Init ==
    /\ queries \in QueryLists
    /\ limit \in 1..MaxLimit
    /\ qi = 1
    /\ pc = "for"
    /\ left = 0
    /\ keys = {}
    /\ pid = <<>>
    /\ page = JNull
    /\ results = <<>>
    /\ ret = <<>>
    /\ calls = <<>>
    /\ fetched = 0
    /\ exc = NoExc
    /\ mark = <<>>
    /\ origin = <<>>
    /\ disc = <<>>
    /\ dbIdle

\* Lines 40-54: the request for queries[qi] is issued; _fetch_json raises, or
\* returns a document from which the "pages" mapping is taken.
Fetch ==
    /\ pc = "for" /\ HasNext
    /\ calls' = Append(calls, queries[qi])
    /\ mark' = results
    /\ \/ \E t \in FetchErrors :
            /\ Handle(Raised(t, 53))
            /\ UNCHANGED fetched
       \/ \E data \in Documents :
            /\ fetched' = fetched + 1
            /\ IF DocRaises(data) # NoExc
               THEN Handle(DocRaises(data))
               ELSE /\ exc' = NoExc
                    /\ left' = Size(PagesOf(data))
                    /\ keys' = {}
                    /\ pc' = "pages"
                    /\ UNCHANGED <<pid, page>>
                    /\ UNCHANGED <<results, qi>>
    /\ UNCHANGED <<queries, limit, ret, origin, disc, dbVars>>

\* Lines 55-66: one iteration of `for pid, page in pages.items()`.
ForPage ==
    /\ pc = "pages" /\ left > 0
    /\ \E i \in Pids \ keys, p \in Pages :
         /\ IF ItemRaises(i, p) # NoExc
            THEN Handle(ItemRaises(i, p)) /\ UNCHANGED <<origin, disc>>
            ELSE /\ results' = IF HasThumbnail(p)
                               THEN DictSet(results, PyInt(i), MkEntry(i, p))
                               ELSE results
                 /\ IF Has(p, "thumbnail")
                    THEN /\ origin' = (PyInt(i) :> [pid |-> i, page |-> p]) @@ origin
                         /\ disc' = IF \E j \in DOMAIN disc : disc[j] = PyInt(i)
                                    THEN disc ELSE Append(disc, PyInt(i))
                    ELSE UNCHANGED <<origin, disc>>
                 /\ pid' = i
                 /\ page' = p
                 /\ keys' = keys \cup {i}
                 /\ left' = left - 1
                 /\ UNCHANGED <<qi, pc, exc>>
    /\ UNCHANGED <<queries, limit, ret, calls, fetched, mark, dbVars>>

\* The pages of the response are exhausted: on to the next query.
ForEnd ==
    /\ pc = "pages" /\ left = 0
    /\ qi' = qi + 1
    /\ pc' = "for"
    /\ keys' = {}
    /\ pid' = <<>>
    /\ page' = JNull
    /\ UNCHANGED <<queries, limit, left, results, ret, calls,
                   fetched, exc, mark, origin, disc, dbVars>>

\* Line 72: the queries are exhausted.
Return ==
    /\ pc = "for" /\ ~HasNext
    /\ ret' = PySlice(DictValues(results), limit)
    /\ pc' = "done"
    /\ UNCHANGED <<queries, limit, qi, left, keys, pid, page, results, calls,
                   fetched, exc, mark, origin, disc, dbVars>>

Next == Fetch \/ ForPage \/ ForEnd \/ Return

Spec == Init /\ [][Next]_vars

-----------------------------------------------------------------------------
(* test_database. The status strings are written without the pictograph   *)
(* that leads them in the source. A status is a fixed text followed by the *)
(* text of an exception, if any; a text is a sequence of characters.       *)

Status(text, detail) == <<text, detail>>

\* str(e) of the exceptions the database module may raise
ShortMsg == [i \in 1..3 |-> "e"]
LongMsg == [i \in 1..51 |-> "e"]
Messages == {ShortMsg, LongMsg}

\* The outcomes of `from database import db`.
Imports ==
    {[kind |-> "ImportError"], [kind |-> "None"]}
    \cup {[kind |-> "Exception", msg |-> m] : m \in Messages}
    \cup {[kind |-> "handle", hasname |-> h, name |-> "appdb"] : h \in BOOLEAN}

\* The outcomes of db.list_collection_names(): n collection names, the k-th
\* name written k, or an exception.
Listings ==
    {[kind |-> "names", names |-> [k \in 1..n |-> k]] : n \in 0..MaxCollections}
    \cup {[kind |-> "Exception", msg |-> m] : m \in Messages}

\* The search is not running.
aggIdle ==
    /\ queries = <<>> /\ limit = 1 /\ qi = 1 /\ pc = "idle" /\ left = 0
    /\ keys = {} /\ pid = <<>> /\ page = JNull
    /\ results = <<>> /\ ret = <<>> /\ calls = <<>> /\ fetched = 0
    /\ exc = NoExc /\ mark = <<>> /\ origin = <<>> /\ disc = <<>>

\* Lines 142-149.
InitDb ==
    /\ dpc = "import"
    /\ db = [kind |-> "unbound"]
    /\ environ \in SUBSET {"DATABASE_URL", "DATABASE_NAME"}
    /\ response = [backend |-> JStr("Running"),
                   database |-> Status("Not Available", <<>>),
                   database_url |-> JNull,
                   database_name |-> JNull,
                   connection_status |-> "Not Connected",
                   collections |-> <<>>]
    /\ aggIdle

\* Lines 151-159 and 168-174: the import and what follows from its outcome.
DbImport ==
    /\ dpc = "import"
    /\ \E m \in Imports :
         /\ db' = m
         /\ IF m.kind = "ImportError"
            THEN /\ response' = [response EXCEPT !.database =
                        Status("Database module not found (run enable-database first)", <<>>)]
                 /\ dpc' = "env"
            ELSE IF m.kind = "Exception"
            THEN /\ response' = [response EXCEPT !.database =
                        Status("Error: ", PySlice(m.msg, 50))]
                 /\ dpc' = "env"
            ELSE IF m.kind = "None"
            THEN /\ response' = [response EXCEPT !.database =
                        Status("Available but not initialized", <<>>)]
                 /\ dpc' = "env"
            ELSE /\ response' = [response EXCEPT
                        !.database = Status("Available", <<>>),
                        !.database_url = JStr("Configured"),
                        !.database_name =
                            IF m.hasname THEN JStr(m.name) ELSE JStr("Connected"),
                        !.connection_status = "Connected"]
                 /\ dpc' = "list"
    /\ UNCHANGED <<environ, aggVars>>

\* Lines 162-167: the collections are listed.
DbList ==
    /\ dpc = "list"
    /\ \E l \in Listings :
         response' = IF l.kind = "names"
                     THEN [response EXCEPT
                             !.collections = PySlice(l.names, 10),
                             !.database = Status("Connected & Working", <<>>)]
                     ELSE [response EXCEPT !.database =
                             Status("Connected but Error: ", PySlice(l.msg, 50))]
    /\ dpc' = "env"
    /\ UNCHANGED <<db, environ, aggVars>>

\* Lines 177-181: the environment is checked and the response returned.
DbEnv ==
    /\ dpc = "env"
    /\ response' = [response EXCEPT
            !.database_url =
                IF "DATABASE_URL" \in environ THEN JStr("Set") ELSE JStr("Not Set"),
            !.database_name =
                IF "DATABASE_NAME" \in environ THEN JStr("Set") ELSE JStr("Not Set")]
    /\ dpc' = "returned"
    /\ UNCHANGED <<db, environ, aggVars>>

NextDb == DbImport \/ DbList \/ DbEnv

SpecDb == InitDb /\ [][NextDb]_vars

-----------------------------------------------------------------------------
(* Properties of search_commons_images, checked under Spec.                *)

Min(a, b) == IF a < b THEN a ELSE b
Ids(entries) == [j \in DOMAIN entries |-> entries[j].id]
KeysOf(d) == {d[i].key : i \in DOMAIN d}

\* The step is an iteration of the loop body that did not raise.
ItemStep == pc = "pages" /\ pc' = "pages" /\ left' = left - 1

\* The step raises an exception out of the try block.
FailStep == exc' # NoExc /\ (pc = "pages" \/ calls' # calls)

C2_FailedQueryDiscarded ==
    (pc \in {"for", "done"} /\ exc # NoExc) => results = mark

\* C2 as amended: the step at which a query fails changes nothing in the
\* mapping and moves on to the next query, so what the pages before the
\* failure recorded stays; a query that fails before its first page
\* (in the request or in the shape of the document) leaves the mapping as it
\* was when the query started.
C2_FailureKeepsEarlierPages ==
    [][FailStep =>
          /\ results' = results
          /\ qi' = qi + 1
          /\ pc' = "for"
          /\ (calls' # calls => results' = mark')]_vars

\* A query failed partway through its pages and the pages before the failure
\* stayed in the mapping.
C2_PartialKept ==
    /\ pc = "for"
    /\ exc.line \in {56, 58, 61}
    /\ Len(results) > Len(mark)

\* C3: the returned list has at most `limit` entries.
C3_AtMostLimit == pc = "done" => Len(ret) <= limit

\* More identifiers than `limit` were collected, and `limit` were returned.
C3_Truncated == pc = "done" /\ Len(results) > limit /\ Len(ret) = limit

\* C4: no two entries of the returned list have the same identifier.
C4_UniqueIds ==
    pc = "done" =>
        \A i, j \in DOMAIN ret : i # j => ret[i].id # ret[j].id

\* Two entries were returned although an identifier occurred again in a
\* later query, under another spelling of its key.
C4_Repeated ==
    /\ pc = "done" /\ Len(ret) = 2
    /\ \E k \in KeysOf(mark) :
          /\ origin[k].pid = <<"0", "1">>
          /\ MkEntry(origin[k].pid, origin[k].page) # Lookup(mark, k)

\* C5: when every call of _fetch_json raises, no exception leaves the
\* function and the returned list is empty.
C5_AllFailEmpty ==
    fetched = 0 => (pc # "raised" /\ (pc = "done" => ret = <<>>))

\* Two calls were made, each failed, and the function returned.
C5_AllFailed == pc = "done" /\ fetched = 0 /\ Len(calls) >= 2

\* C6: the requests issued are the queries, one each, in input order: at
\* any time the requests made are the queries up to the loop's position, and
\* at the return they are all the queries.
C6_OneCallPerQuery ==
    /\ calls = SubSeq(queries, 1, Len(calls))
    /\ Len(calls) = (IF pc = "pages" THEN qi ELSE qi - 1)
    /\ pc = "done" => calls = queries

\* The last request was made although `limit` entries had been collected, and
\* after a failed request.
C6_CalledWhenFull ==
    /\ pc = "done" /\ Len(calls) >= 2
    /\ Len(mark) >= limit
    /\ fetched < Len(calls)
    /\ fetched > 0

\* C7: an item without a "thumbnail" field leaves the mapping as it is, and
\* every returned entry stems from an item that carried the field.
C7_NoThumbnailNoEntry ==
    /\ [][(ItemStep /\ ~Has(page', "thumbnail")) => results' = results]_vars
    /\ [](pc = "done" =>
            \A j \in DOMAIN ret :
                /\ ret[j].id \in DOMAIN origin
                /\ Has(origin[ret[j].id].page, "thumbnail"))

\* An item without a thumbnail has just been processed, for an identifier that
\* is not in the mapping, next to entries that are.
C7_Skipped ==
    /\ pc = "pages" /\ IsObj(page) /\ ~Has(page, "thumbnail")
    /\ IsIntLiteral(pid) /\ ~HasKey(results, PyInt(pid))
    /\ results # <<>>

\* C8 as stated: a page lacking one of the expected fields is skipped, so
\* every returned entry stems from a page with all of them and has a thumbnail
\* URL.
C8_EveryThumbnailPresent ==
    pc = "done" =>
        \A j \in DOMAIN ret :
            /\ ret[j].thumbnail # JNull
            /\ HasAllFields(origin[ret[j].id].page)

\* C8 as amended: an item with a "thumbnail" object is recorded whatever else
\* it lacks, each attribute whose field is missing being null.
C8_MissingFieldsKeptAsNull ==
    [][(ItemStep /\ Has(page', "thumbnail")) =>
          /\ IsIntLiteral(pid')
          /\ IsObj(page'.val.thumbnail)
          /\ HasKey(results', PyInt(pid'))
          /\ LET e == Lookup(results', PyInt(pid'))
                 th == page'.val.thumbnail
             IN  /\ e.id = PyInt(pid')
                 /\ e.title = (IF Has(page', "title") THEN page'.val.title ELSE JNull)
                 /\ e.page_url = (IF Has(page', "fullurl") THEN page'.val.fullurl ELSE JNull)
                 /\ e.thumbnail = (IF Has(th, "source") THEN th.val.source ELSE JNull)
                 /\ e.width = (IF Has(th, "width") THEN th.val.width ELSE JNull)
                 /\ e.height = (IF Has(th, "height") THEN th.val.height ELSE JNull)]_vars

\* An entry without title and without thumbnail URL was returned.
C8_NullReturned ==
    /\ pc = "done"
    /\ \E j \in DOMAIN ret : ret[j].thumbnail = JNull /\ ret[j].title = JNull

\* C9: the identifiers returned are the first `limit` identifiers in the
\* order of their first discovery; with one query, limit 1 and two
\* identifiers discovered, the one returned is the one discovered first.
C9_DiscoveryOrder ==
    pc = "done" =>
        /\ Ids(ret) = SubSeq(disc, 1, Min(limit, Len(disc)))
        /\ (Len(queries) = 1 /\ limit = 1 /\ Len(disc) = 2) =>
              (Len(ret) = 1 /\ ret[1].id = disc[1])

\* One query, limit 1, two identifiers discovered in the order 2, 1.
C9_FirstOfTwo ==
    /\ pc = "done" /\ Len(queries) = 1 /\ limit = 1
    /\ disc = <<2, 1>> /\ Len(ret) = 1

-----------------------------------------------------------------------------
(* Properties of test_database, checked under SpecDb.                      *)

\* C10: with a database handle that has a name and a listing that succeeds,
\* the response carries the database's name in database_name and at most 10
\* names in collections.
C10_ReportsDatabaseName ==
    (/\ dpc = "returned"
     /\ db.kind = "handle" /\ db.hasname
     /\ response.database = Status("Connected & Working", <<>>)) =>
        /\ response.database_name = JStr(db.name)
        /\ Len(response.collections) <= 10

====
